---- MODULE Spec2Model ----
(* Model of buic.py (backup integrity check): build mode writes a manifest  *)
(* of "<relative path>:::<sha256>" lines for a directory tree, verify mode  *)
(* re-walks the tree and compares each file with the loaded manifest.        *)
(* Text is modelled as a sequence of one-character strings.                  *)
EXTENDS Integers, Sequences, FiniteSets, TLC

\* ---------------------------------------------------------------- bounds
MaxFiles == 2        \* most files the tree holds at once
MaxEdits == 1        \* changes the environment makes to the tree after its setup
MaxRuns == 2         \* invocations of the program in one session
HexLen == 2          \* digits of a rendered digest (64 in the program)

\* str.strip() removes these from both ends of a line
Whitespace == {" ", "\n"}
\* the relative paths files are created under: two plain names, a name with a
\* leading space, a name ending in a colon, a name containing the delimiter
Paths == { <<"a">>, <<"b">>, <<" ", "a">>, <<"a", ":">>, <<"a", ":", ":", ":", "b">> }
Contents == {<<>>, <<7>>}

Delim == <<":", ":", ":">>
HexDigits == <<"0","1","2","3","4","5","6","7","8","9","a","b","c","d","e","f">>

RootDir == <<"d">>
NotADir == <<"x">>
ManifestPath == "hashes.txt"
MissingPath == "nofile.txt"

Min(S) == CHOOSE x \in S : \A y \in S : x <= y
Max(S) == CHOOSE x \in S : \A y \in S : x >= y

\* ------------------------------------------------------- pure functions
RECURSIVE Pow(_, _)
Pow(b, e) == IF e = 0 THEN 1 ELSE b * Pow(b, e - 1)

\* hexdigest(): lowercase hexadecimal, fixed width
Hex(n, w) == [i \in 1..w |-> HexDigits[((n \div Pow(16, w - i)) % 16) + 1]]

\* sha256.update(chunk) over the bytes of the file; the compression function
\* is abstracted to one that has no collision on Contents
RECURSIVE Absorb(_, _)
Absorb(bytes, h) ==
  IF bytes = <<>> THEN h
  ELSE Absorb(Tail(bytes), (h * 31 + Head(bytes) + 1) % Pow(16, HexLen))

Sha256(bytes) == Hex(Absorb(bytes, 7), HexLen)

\* str.find, 1-based, 0 when absent
Find(s, sub) ==
  LET hits == {i \in 1..(Len(s) - Len(sub) + 1) : SubSeq(s, i, i + Len(sub) - 1) = sub}
  IN IF hits = {} THEN 0 ELSE Min(hits)

\* str.strip(): leading and trailing whitespace removed
Strip(s) ==
  LET keep == {i \in 1..Len(s) : s[i] \notin Whitespace}
  IN IF keep = {} THEN <<>> ELSE SubSeq(s, Min(keep), Max(keep))

\* str.split(':::', 1) of a string that contains the delimiter
Split1(s) ==
  LET i == Find(s, Delim)
  IN <<SubSeq(s, 1, i - 1), SubSeq(s, i + Len(Delim), Len(s))>>

\* iteration over a text file: lines keep their terminator
RECURSIVE SplitLines(_)
SplitLines(t) ==
  IF t = <<>> THEN <<>>
  ELSE LET n == Find(t, <<"\n">>)
       IN IF n = 0 THEN <<t>>
          ELSE <<SubSeq(t, 1, n)>> \o SplitLines(SubSeq(t, n + 1, Len(t)))

EmptyDict == [k \in {} |-> <<>>]
DictSet(h, k, v) == [x \in DOMAIN h \cup {k} |-> IF x = k THEN v ELSE h[x]]

RECURSIVE LoadLines(_, _)
LoadLines(lines, h) ==
  IF lines = <<>> THEN h
  ELSE LET line == Head(lines)
       IN IF Find(line, Delim) # 0
          THEN LET parts == Split1(Strip(line))
               IN LoadLines(Tail(lines), DictSet(h, parts[1], parts[2]))
          ELSE LoadLines(Tail(lines), h)

load_hashes(text) == LoadLines(SplitLines(text), EmptyDict)

\* out.write(f"{rel_path}:::{hash_value}\n")
EncodeLine(rel_path, hash_value) == rel_path \o Delim \o hash_value \o <<"\n">>

\* os.path.join(root, file) and os.path.relpath(filepath, directory)
JoinPath(root, file) == root \o <<"/">> \o file
RelPath(filepath, directory) == SubSeq(filepath, Len(directory) + 2, Len(filepath))

IsDir(p) == p = RootDir

\* ------------------------------------------------------------------ state
VARIABLES
  tree,            \* the files under RootDir, in os.walk order: [path, content, readable]
  manifestFile,    \* the manifest artifact: [exists, text]
  reportFile,      \* the verification report artifact: [exists, lines]
  snapshot,        \* the tree as the last build mode run saw it
  pc,              \* position of the program: idle (not running), main, ...
  mode,            \* branch of main the current or last run took
  args,            \* parsed command line of the current run
  exitStatus,      \* exit status of the last run, -1 while running or before any run
  console,         \* lines printed by the current or last run
  all_files,       \* main: (filepath, rel_path) pairs collected for build
  idx,             \* main: number of entries of all_files processed
  hashes,          \* verify_hashes: the loaded manifest
  walk,            \* verify_hashes: file paths os.walk yields
  it,              \* verify_hashes: number of files the loop has taken from the walk
  verified_count,
  failed_count,
  results,
  calls,           \* routines the current run has called so far
  edits,           \* environment operations used up
  runs,            \* program invocations used up
  m                \* codec check: the manifest handed to the encoder

vars == <<tree, manifestFile, reportFile, snapshot, pc, mode, args, exitStatus,
          console, all_files, idx, hashes, walk, it, verified_count, failed_count,
          results, calls, edits, runs, m>>

envVars == <<tree, edits>>
artifactVars == <<manifestFile, reportFile>>
buildVars == <<all_files, idx>>
verifyVars == <<hashes, walk, it, verified_count, failed_count, results>>
procVars == <<pc, mode, args, exitStatus, console, buildVars, verifyVars, calls>>

Range(s) == {s[i] : i \in 1..Len(s)}
PathsOf(t) == {t[i].path : i \in 1..Len(t)}

NotGiven == [given |-> FALSE, value |-> <<>>]
NoVerify == [given |-> FALSE, directory |-> <<>>, hash_file |-> ""]
NoArgs == [backup |-> NotGiven, verify |-> NoVerify]
BackupArgs == {NotGiven} \cup {[given |-> TRUE, value |-> v] : v \in {<<>>, RootDir, NotADir}}
VerifyArgs == {NoVerify} \cup
  {[given |-> TRUE, directory |-> d, hash_file |-> h] :
     d \in {RootDir, NotADir}, h \in {ManifestPath, MissingPath}}
\* "if args.backup:" is false for an absent option and for the empty string
Truthy(a) == a.given /\ a.value # <<>>

Line(kind, path, status, n) == [kind |-> kind, path |-> path, status |-> status, n |-> n]
StatusLine(rel_path, status) == Line("result", rel_path, status, 0)
SummaryBlock(total, v, f) ==
  << Line("blank", <<>>, "", 0), Line("border", <<>>, "", 0),
     Line("header", <<>>, "Summary", 0), Line("border", <<>>, "", 0),
     Line("Total files", <<>>, "", total), Line("Verified", <<>>, "", v),
     Line("Failed Verification", <<>>, "", f) >>

\* os.walk(directory): the file paths below directory, none when it is no directory
Listing(directory) ==
  IF IsDir(directory)
  THEN [i \in 1..Len(tree) |-> JoinPath(directory, tree[i].path)]
  ELSE <<>>

IsFile(hash_file) == hash_file = ManifestPath /\ manifestFile.exists

FileAt(filepath) == CHOOSE f \in Range(tree) : JoinPath(RootDir, f.path) = filepath

\* calculate_sha256: the digest of the file's bytes, or an exception from open()
calculate_sha256(filepath) ==
  LET f == FileAt(filepath)
  IN [ok |-> f.readable, digest |-> Sha256(f.content)]

\* dict.get: None for an absent key
None == <<"None">>
DictGet(h, k) == IF k \in DOMAIN h THEN h[k] ELSE None

RunLocalsInit ==
  /\ all_files = <<>> /\ idx = 0
  /\ hashes = EmptyDict /\ walk = <<>> /\ it = 0
  /\ verified_count = 0 /\ failed_count = 0 /\ results = <<>>
  /\ calls = {} /\ console = <<>>

Init ==
  /\ tree = <<>>
  /\ manifestFile = [exists |-> FALSE, text |-> <<>>]
  /\ reportFile = [exists |-> FALSE, lines |-> <<>>]
  /\ snapshot = <<>>
  /\ pc = "idle" /\ mode = "none" /\ args = NoArgs /\ exitStatus = -1
  /\ RunLocalsInit
  /\ edits = 0 /\ runs = 0
  /\ m = <<>>

\* ------------------------------------------------------------ environment
\* Between runs the user changes the directory tree. Setting the tree up
\* before the first run is free, every later change counts as an edit.
CreateFile ==
  /\ pc = "idle" /\ Len(tree) < MaxFiles
  /\ (runs = 0 /\ edits = 0) \/ edits < MaxEdits
  /\ \E p \in Paths \ PathsOf(tree), c \in Contents :
       tree' = Append(tree, [path |-> p, content |-> c, readable |-> TRUE])
  /\ edits' = IF runs = 0 /\ edits = 0 THEN edits ELSE edits + 1
  /\ UNCHANGED <<artifactVars, snapshot, procVars, runs, m>>

\* a file that a run has already seen is changed or removed
Tamper ==
  /\ pc = "idle" /\ runs > 0 /\ edits < MaxEdits
  /\ \E i \in 1..Len(tree) : \E c \in Contents \ {tree[i].content} :
       tree' = [tree EXCEPT ![i].content = c]
  /\ edits' = edits + 1
  /\ UNCHANGED <<artifactVars, snapshot, procVars, runs, m>>

Delete ==
  /\ pc = "idle" /\ runs > 0 /\ edits < MaxEdits
  /\ \E i \in 1..Len(tree) :
       tree' = SubSeq(tree, 1, i - 1) \o SubSeq(tree, i + 1, Len(tree))
  /\ edits' = edits + 1
  /\ UNCHANGED <<artifactVars, snapshot, procVars, runs, m>>

Chmod ==
  /\ pc = "idle" /\ edits < MaxEdits
  /\ \E i \in 1..Len(tree) :
       tree' = [tree EXCEPT ![i].readable = ~tree[i].readable]
  /\ edits' = edits + 1
  /\ UNCHANGED <<artifactVars, snapshot, procVars, runs, m>>

\* ------------------------------------------------------------------- main
\* the script is started with command line a: parser.parse_args()
Start(a) == pc = "idle" /\ runs < MaxRuns /\ args' = a /\ runs' = runs + 1
ArgLines == {[backup |-> b, verify |-> v] : b \in BackupArgs, v \in VerifyArgs}

\* the process ends with the given status
Exit(status) == pc' = "exited" /\ exitStatus' = status

\* build mode, directory check fails: print and exit(1)
MainBuildNotDir ==
  /\ \E a \in ArgLines :
       /\ Start(a)
       /\ Truthy(a.backup) /\ ~IsDir(a.backup.value)
       /\ console' = Append(console, Line("error", a.backup.value, "is not a valid directory", 0))
  /\ mode' = "build"
  /\ Exit(1)
  /\ UNCHANGED <<tree, edits, artifactVars, snapshot, buildVars, verifyVars, calls, m>>

\* build mode: collect all files, then open the output file for writing
MainBuildStart ==
  /\ \E a \in ArgLines :
       /\ Start(a)
       /\ Truthy(a.backup) /\ IsDir(a.backup.value)
       /\ LET directory == a.backup.value
              found == Listing(directory)
          IN all_files' = [i \in 1..Len(found) |-> <<found[i], RelPath(found[i], directory)>>]
  /\ mode' = "build"
  /\ calls' = calls \cup {"os.walk"}
  /\ snapshot' = tree
  /\ manifestFile' = [exists |-> TRUE, text |-> <<>>]
  /\ idx' = 0
  /\ pc' = "build_loop"
  /\ UNCHANGED <<tree, edits, reportFile, exitStatus, console, verifyVars, m>>

\* BuildStep without the try/except: a failing digest ends the run
BuildStep_NoTry ==
  /\ pc = "build_loop" /\ idx < Len(all_files)
  /\ LET filepath == all_files[idx + 1][1]
         rel_path == all_files[idx + 1][2]
         h == calculate_sha256(filepath)
     IN IF h.ok
        THEN /\ manifestFile' = [manifestFile EXCEPT !.text = @ \o EncodeLine(rel_path, h.digest)]
             /\ console' = console
             /\ UNCHANGED <<pc, exitStatus>>
        ELSE /\ console' = Append(console, Line("Traceback", filepath, "PermissionError", 0))
             /\ manifestFile' = manifestFile
             /\ Exit(1)
  /\ calls' = calls \cup {"calculate_sha256"}
  /\ idx' = idx + 1
  /\ UNCHANGED <<envVars, reportFile, snapshot, mode, args,
                 all_files, verifyVars, runs, m>>

\* one iteration of the hashing loop: try: hash and write / except: print
BuildStep ==
  /\ pc = "build_loop" /\ idx < Len(all_files)
  /\ LET filepath == all_files[idx + 1][1]
         rel_path == all_files[idx + 1][2]
         h == calculate_sha256(filepath)
     IN IF h.ok
        THEN /\ manifestFile' = [manifestFile EXCEPT !.text = @ \o EncodeLine(rel_path, h.digest)]
             /\ console' = console
        ELSE /\ console' = Append(console, Line("Failed to hash", filepath, "", 0))
             /\ manifestFile' = manifestFile
  /\ calls' = calls \cup {"calculate_sha256"}
  /\ idx' = idx + 1
  /\ UNCHANGED <<envVars, reportFile, snapshot, pc, mode, args, exitStatus,
                 all_files, verifyVars, runs, m>>

\* the loop is exhausted: the output file is closed and main returns
BuildDone ==
  /\ pc = "build_loop" /\ idx = Len(all_files)
  /\ Exit(0)
  /\ UNCHANGED <<envVars, artifactVars, snapshot, mode, args, console, buildVars,
                 verifyVars, calls, runs, m>>

\* verify mode is taken when the build branch is not
MainVerify ==
  /\ \E a \in ArgLines :
       /\ Start(a)
       /\ ~Truthy(a.backup) /\ a.verify.given
  /\ mode' = "verify"
  /\ pc' = "verify_hashes"
  /\ UNCHANGED <<tree, edits, artifactVars, snapshot, exitStatus, console,
                 buildVars, verifyVars, calls, m>>

MainHelp ==
  /\ \E a \in ArgLines :
       /\ Start(a)
       /\ ~Truthy(a.backup) /\ ~a.verify.given
  /\ mode' = "help"
  /\ console' = Append(console, Line("help", <<>>, "", 0))
  /\ Exit(0)
  /\ UNCHANGED <<tree, edits, artifactVars, snapshot, buildVars, verifyVars, calls, m>>

\* ---------------------------------------------------------- verify_hashes
VerifyNotDir ==
  /\ pc = "verify_hashes" /\ ~IsDir(args.verify.directory)
  /\ console' = Append(console, Line("error", args.verify.directory, "is not a valid directory", 0))
  /\ Exit(1)
  /\ UNCHANGED <<envVars, artifactVars, snapshot, mode, args, buildVars, verifyVars,
                 calls, runs, m>>

\* VerifyNoFile without the exit(1): the message is printed and load_hashes
\* is called on the missing file, whose open() raises
VerifyNoFile_NoExit ==
  /\ pc = "verify_hashes" /\ IsDir(args.verify.directory) /\ ~IsFile(args.verify.hash_file)
  /\ console' = console \o << Line("error", <<>>, "does not exist", 0),
                              Line("Traceback", <<>>, "FileNotFoundError", 0) >>
  /\ calls' = calls \cup {"load_hashes"}
  /\ Exit(1)
  /\ UNCHANGED <<envVars, artifactVars, snapshot, mode, args, buildVars, verifyVars,
                 runs, m>>

VerifyNoFile ==
  /\ pc = "verify_hashes" /\ IsDir(args.verify.directory) /\ ~IsFile(args.verify.hash_file)
  /\ console' = Append(console, Line("error", <<>>, "does not exist", 0))
  /\ Exit(1)
  /\ UNCHANGED <<envVars, artifactVars, snapshot, mode, args, buildVars, verifyVars,
                 calls, runs, m>>

\* both checks passed: load the manifest, reset the counters, start the walk
VerifyLoad ==
  /\ pc = "verify_hashes" /\ IsDir(args.verify.directory) /\ IsFile(args.verify.hash_file)
  /\ hashes' = load_hashes(manifestFile.text)
  /\ verified_count' = 0 /\ failed_count' = 0 /\ results' = <<>>
  /\ walk' = Listing(args.verify.directory)
  /\ it' = 0
  /\ calls' = calls \cup {"load_hashes", "os.walk"}
  /\ pc' = "verify_loop"
  /\ UNCHANGED <<envVars, artifactVars, snapshot, mode, args, exitStatus, console,
                 buildVars, runs, m>>

\* VerifyStep with a comparison that lets a path without manifest entry pass
VerifyStep_AbsentOk ==
  /\ pc = "verify_loop" /\ it < Len(walk)
  /\ calls' = calls \cup {"calculate_sha256"}
  /\ it' = it + 1
  /\ LET filepath == walk[it + 1]
         rel_path == RelPath(filepath, args.verify.directory)
         h == calculate_sha256(filepath)
         expected_hash == DictGet(hashes, rel_path)
     IN IF h.ok
        THEN /\ IF expected_hash = None \/ expected_hash = h.digest
                THEN /\ verified_count' = verified_count + 1
                     /\ failed_count' = failed_count
                     /\ console' = Append(console, StatusLine(rel_path, "verified"))
                     /\ results' = Append(results, StatusLine(rel_path, "verified"))
                ELSE /\ failed_count' = failed_count + 1
                     /\ verified_count' = verified_count
                     /\ console' = Append(console, StatusLine(rel_path, "failed verification"))
                     /\ results' = Append(results, StatusLine(rel_path, "failed verification"))
             /\ UNCHANGED <<pc, exitStatus>>
        ELSE /\ console' = Append(console, Line("Traceback", filepath, "PermissionError", 0))
             /\ Exit(1)
             /\ UNCHANGED <<verified_count, failed_count, results>>
  /\ UNCHANGED <<envVars, artifactVars, snapshot, mode, args, buildVars, hashes, walk,
                 runs, m>>

\* one iteration of the verification loop; an exception of calculate_sha256
\* is not caught anywhere, so it ends the process with a traceback
VerifyStep ==
  /\ pc = "verify_loop" /\ it < Len(walk)
  /\ calls' = calls \cup {"calculate_sha256"}
  /\ it' = it + 1
  /\ LET filepath == walk[it + 1]
         rel_path == RelPath(filepath, args.verify.directory)
         h == calculate_sha256(filepath)
         expected_hash == DictGet(hashes, rel_path)
     IN IF h.ok
        THEN /\ IF expected_hash = h.digest
                THEN /\ verified_count' = verified_count + 1
                     /\ failed_count' = failed_count
                     /\ console' = Append(console, StatusLine(rel_path, "verified"))
                     /\ results' = Append(results, StatusLine(rel_path, "verified"))
                ELSE /\ failed_count' = failed_count + 1
                     /\ verified_count' = verified_count
                     /\ console' = Append(console, StatusLine(rel_path, "failed verification"))
                     /\ results' = Append(results, StatusLine(rel_path, "failed verification"))
             /\ UNCHANGED <<pc, exitStatus>>
        ELSE /\ console' = Append(console, Line("Traceback", filepath, "PermissionError", 0))
             /\ Exit(1)
             /\ UNCHANGED <<verified_count, failed_count, results>>
  /\ UNCHANGED <<envVars, artifactVars, snapshot, mode, args, buildVars, hashes, walk,
                 runs, m>>

\* VerifyFinish with the total taken from the manifest, not from the counters
VerifyFinish_TotalFromManifest ==
  /\ pc = "verify_loop" /\ it = Len(walk)
  /\ LET total_files == Cardinality(DOMAIN hashes)
         block == SummaryBlock(total_files, verified_count, failed_count)
     IN /\ console' = console \o block
        /\ reportFile' = [exists |-> TRUE, lines |-> results \o block]
  /\ Exit(0)
  /\ UNCHANGED <<envVars, manifestFile, snapshot, mode, args, buildVars, verifyVars,
                 calls, runs, m>>

\* the walk is exhausted: print the summary, write the report, return
VerifyFinish ==
  /\ pc = "verify_loop" /\ it = Len(walk)
  /\ LET total_files == verified_count + failed_count
         block == SummaryBlock(total_files, verified_count, failed_count)
     IN /\ console' = console \o block
        /\ reportFile' = [exists |-> TRUE, lines |-> results \o block]
  /\ Exit(0)
  /\ UNCHANGED <<envVars, manifestFile, snapshot, mode, args, buildVars, verifyVars,
                 calls, runs, m>>

\* the process is gone: its memory and its output are no longer looked at
Return ==
  /\ pc = "exited"
  /\ pc' = "idle" /\ mode' = "none" /\ args' = NoArgs /\ exitStatus' = -1
  /\ all_files' = <<>> /\ idx' = 0
  /\ hashes' = EmptyDict /\ walk' = <<>> /\ it' = 0
  /\ verified_count' = 0 /\ failed_count' = 0 /\ results' = <<>>
  /\ calls' = {} /\ console' = <<>>
  /\ UNCHANGED <<envVars, artifactVars, snapshot, runs, m>>

Next ==
  \/ CreateFile \/ Tamper \/ Delete \/ Chmod
  \/ MainBuildNotDir \/ MainBuildStart \/ BuildStep \/ BuildDone
  \/ MainVerify \/ MainHelp
  \/ VerifyNotDir \/ VerifyNoFile \/ VerifyLoad \/ VerifyStep \/ VerifyFinish
  \/ Return

Spec == Init /\ [][Next]_vars

\* ------------------------------------------------- codec, as a pure function
Digests == {Sha256(c) : c \in Contents}
Entries == Paths \X Digests
Manifests ==
  {e \in UNION {[1..k -> Entries] : k \in 0..MaxFiles} :
     \A i, j \in 1..Len(e) : i # j => e[i][1] # e[j][1]}

\* the encoder of build mode applied to every entry in turn
RECURSIVE EncodeAll(_)
EncodeAll(es) ==
  IF es = <<>> THEN <<>>
  ELSE EncodeLine(Head(es)[1], Head(es)[2]) \o EncodeAll(Tail(es))

InitCodec ==
  /\ m \in Manifests
  /\ tree = <<>>
  /\ manifestFile = [exists |-> FALSE, text |-> <<>>]
  /\ reportFile = [exists |-> FALSE, lines |-> <<>>]
  /\ snapshot = <<>>
  /\ pc = "codec" /\ mode = "none" /\ args = NoArgs /\ exitStatus = -1
  /\ RunLocalsInit
  /\ edits = 0 /\ runs = 0

CodecEncode ==
  /\ pc = "codec"
  /\ manifestFile' = [exists |-> TRUE, text |-> EncodeAll(m)]
  /\ pc' = "encoded"
  /\ UNCHANGED <<envVars, reportFile, snapshot, mode, args, exitStatus, console,
                 buildVars, verifyVars, calls, runs, m>>

CodecDecode ==
  /\ pc = "encoded"
  /\ hashes' = load_hashes(manifestFile.text)
  /\ pc' = "decoded"
  /\ UNCHANGED <<envVars, artifactVars, snapshot, mode, args, exitStatus, console,
                 buildVars, walk, it, verified_count, failed_count, results,
                 calls, runs, m>>

NextCodec == CodecEncode \/ CodecDecode

SpecCodec == InitCodec /\ [][NextCodec]_vars

\* ------------------------------------------------------------ properties
IsResult(l) == l.kind = "result"
ReadableOf(t) == SelectSeq(t, LAMBDA f : f.readable)
EntriesOf(t) == [i \in 1..Len(t) |-> <<t[i].path, Sha256(t[i].content)>>]
\* the mapping from each file's relative path to the digest of its bytes
ManifestOf(t) ==
  [p \in PathsOf(t) |-> Sha256((CHOOSE f \in Range(t) : f.path = p).content)]
BuildFinished == pc = "exited" /\ mode = "build" /\ exitStatus = 0
VerifyEnded == pc = "exited" /\ mode = "verify" /\ "load_hashes" \in calls
VerifyFinished == VerifyEnded /\ exitStatus = 0

\* C1: after a build run over a tree whose files can all be read, the
\* manifest read back by load_hashes has exactly one entry per file of the
\* tree, keyed by the relative path, with the SHA-256 of the file's bytes.
C1_BuildThenLoadExact ==
  (BuildFinished /\ \A i \in 1..Len(snapshot) : snapshot[i].readable)
    => load_hashes(manifestFile.text) = ManifestOf(snapshot)

\* C2: verifying a tree that is unchanged since its manifest was built ends
\* with failed_count = 0 and verified_count = number of files.
C2_SelfConsistent ==
  (VerifyEnded /\ tree = snapshot)
    => (exitStatus = 0 /\ failed_count = 0 /\ verified_count = Len(tree))

\* exactly the content of file i differs between the build and now
OnlyContentChanged(i) ==
  /\ Len(tree) = Len(snapshot) /\ i \in 1..Len(tree)
  /\ tree[i].content # snapshot[i].content
  /\ tree[i].path = snapshot[i].path /\ tree[i].readable = snapshot[i].readable
  /\ \A j \in 1..Len(tree) : j # i => tree[j] = snapshot[j]

\* C3: when the content of exactly one file changed after the build, that
\* file is reported failed verification and every other file verified.
C3_TamperDetected ==
  \A i \in 1..Len(tree) :
    (VerifyEnded /\ OnlyContentChanged(i))
      => /\ results = [j \in 1..Len(tree) |->
                         StatusLine(tree[j].path,
                                    IF j = i THEN "failed verification" ELSE "verified")]
         /\ failed_count = 1
         /\ verified_count = Len(tree) - 1

\* file i of the built tree was deleted and nothing else changed
OnlyDeleted(i) ==
  /\ i \in 1..Len(snapshot)
  /\ tree = SubSeq(snapshot, 1, i - 1) \o SubSeq(snapshot, i + 1, Len(snapshot))

\* C4: when a file recorded in the manifest was deleted before verification,
\* its relative path appears in the results, the console or the report.
C4_MissingReported ==
  \A i \in 1..Len(snapshot) :
    (VerifyFinished /\ OnlyDeleted(i) /\ snapshot[i].path \in DOMAIN hashes)
      => \E l \in Range(results) \cup Range(console) \cup Range(reportFile.lines) :
           l.path = snapshot[i].path

\* C5: a manifest whose paths do not contain the delimiter, written line by
\* line by the encoder and read back by load_hashes, comes back unchanged
\* (same keys, same digest for each key).
C5_RoundTrip ==
  (pc = "decoded" /\ \A i \in 1..Len(m) : Find(m[i][1], Delim) = 0)
    => hashes = [p \in {m[i][1] : i \in 1..Len(m)} |->
                   (CHOOSE e \in Range(m) : e[1] = p)[2]]

\* C6: the build loop is left only after every collected file was processed,
\* with exit status 0; the manifest then holds exactly the lines of the files
\* whose digest succeeded, in traversal order, and a failure was printed for
\* exactly the files whose digest failed.
C6_BuildFailureIsolated ==
  [][(pc = "build_loop" /\ pc' # "build_loop")
       => /\ idx = Len(all_files)
          /\ pc' = "exited" /\ exitStatus' = 0
          /\ manifestFile'.exists
          /\ manifestFile'.text = EncodeAll(EntriesOf(ReadableOf(snapshot)))
          /\ \A i \in 1..Len(snapshot) :
               (~snapshot[i].readable) <=>
                 (\E l \in Range(console') :
                    l.kind = "Failed to hash" /\ l.path = JoinPath(RootDir, snapshot[i].path))]_vars

C6_Witness ==
  /\ BuildFinished /\ Len(snapshot) >= 2
  /\ ~snapshot[1].readable /\ snapshot[2].readable
  /\ manifestFile.text = EncodeLine(snapshot[2].path, Sha256(snapshot[2].content))
  /\ Len(console) = 1

\* C7: a verification run that got past its checks always processes every
\* file of the walk, exits with status 0 and writes the report, also when the
\* digest of a file fails.
C7_VerifyFailureIsolated ==
  VerifyEnded
    => /\ exitStatus = 0
       /\ Len(results) = Len(walk)
       /\ reportFile.exists
       /\ SelectSeq(reportFile.lines, IsResult) = results

C9_Classification ==
  [][(pc = "verify_loop" /\ pc' = "verify_loop")
       => LET f == tree[it + 1]
              ok == f.path \in DOMAIN hashes /\ hashes[f.path] = Sha256(f.content)
          IN /\ results' = Append(results,
                   StatusLine(f.path, IF ok THEN "verified" ELSE "failed verification"))
             /\ verified_count' = verified_count + (IF ok THEN 1 ELSE 0)
             /\ failed_count' = failed_count + (IF ok THEN 0 ELSE 1)]_vars

C9_Witness ==
  /\ VerifyFinished /\ Len(results) = 2
  /\ results[1].status = "verified" /\ results[1].path \in DOMAIN hashes
  /\ results[2].status = "failed verification"
  /\ results[2].path \notin DOMAIN hashes
  /\ results[2].path \notin PathsOf(snapshot)

\* C10: during the loop verified_count + failed_count = number of result
\* lines = number of files taken; each file adds one line and one to exactly
\* one counter; at the end Total files = verified_count + failed_count =
\* number of files walked, and the report holds the result lines in printing
\* (traversal) order followed by the summary block.
C10_Accounting ==
  [][/\ pc' = "verify_loop"
        => (verified_count' + failed_count' = Len(results') /\ Len(results') = it')
     /\ (pc = "verify_loop" /\ pc' = "verify_loop")
        => /\ Len(results') = Len(results) + 1
           /\ \/ (verified_count' = verified_count + 1 /\ failed_count' = failed_count)
              \/ (verified_count' = verified_count /\ failed_count' = failed_count + 1)
     /\ (pc = "verify_loop" /\ pc' = "exited" /\ exitStatus' = 0)
        => /\ verified_count + failed_count = Len(walk)
           /\ reportFile'.lines =
                results \o SummaryBlock(Len(walk), verified_count, failed_count)
           /\ SelectSeq(console', IsResult) = results
           /\ [i \in 1..Len(results) |-> results[i].path] =
                [i \in 1..Len(walk) |-> tree[i].path]]_vars

C10_Witness ==
  /\ VerifyFinished /\ Len(results) = 2
  /\ verified_count = 1 /\ failed_count = 1
  /\ reportFile.lines = results \o SummaryBlock(2, 1, 1)
====
